---- MODULE Spec2Model ----
(***************************************************************************)
(* Model of static/ppdet/utils/post_process.py: box_flip, nms, soft_nms,   *)
(* bbox_overlaps, box_voting, get_nms_result and mask_encode.              *)
(*                                                                         *)
(* Conventions.                                                            *)
(*  - A row of a (n,5) array dets is the tuple <<score, x1, y1, x2, y2>>.  *)
(*  - Scores are fixed-point numbers in units of 1/100 (90 is 0.9).        *)
(*  - Box coordinates are integers; the boxes drawn are well-formed        *)
(*    (x1 <= x2, y1 <= y2), so every area and every IoU denominator is     *)
(*    positive.                                                            *)
(*  - A real threshold or parameter is a pair <<num, den>>, den > 0.       *)
(*  - Every function has a variable of its own holding one call of it;     *)
(*    a specification runs one function and leaves the other variables at  *)
(*    Idle.                                                                *)
(***************************************************************************)
EXTENDS Integers, Sequences, FiniteSets, TLC

VARIABLES nmsv, softv, votev, selv, maskv, flipv

vars == <<nmsv, softv, votev, selv, maskv, flipv>>

Idle == [pc |-> "idle"]

\* ------------------------------------------------------------------ bounds

\* Largest number of rows of an input array dets.
MaxDets == 3

\* ----------------------------------------------------------------- helpers

Max(a, b) == IF a >= b THEN a ELSE b
Min(a, b) == IF a <= b THEN a ELSE b

Range(s) == {s[i] : i \in 1..Len(s)}

\* All sequences over S of length at most n.
SeqsUpTo(S, n) == UNION {[1..k -> S] : k \in 0..n}

\* dets[idx, :] : the rows of dets at the indices idx, in the order of idx.
Gather(dets, idx) == [k \in 1..Len(idx) |-> dets[idx[k]]]

\* The indices 1..n in ascending order.
Indices(n) == [i \in 1..n |-> i]

Score(d) == d[1]

\* areas = (x2 - x1 + 1) * (y2 - y1 + 1)
Area(d) == (d[4] - d[2] + 1) * (d[5] - d[3] + 1)

\* inter = w * h of the rows a and b, with w = max(0.0, xx2 - xx1 + 1) and
\* h = max(0.0, yy2 - yy1 + 1).
Inter(a, b) ==
    LET xx1 == Max(a[2], b[2])
        yy1 == Max(a[3], b[3])
        xx2 == Min(a[4], b[4])
        yy2 == Min(a[5], b[5])
        w == Max(0, xx2 - xx1 + 1)
        h == Max(0, yy2 - yy1 + 1)
    IN w * h

\* ovr = inter / (iarea + areas[j] - inter), as the fraction <<num, den>>.
Ovr(a, b) == <<Inter(a, b), Area(a) + Area(b) - Inter(a, b)>>

\* q >= t for fractions q and t with positive denominators.
FracGe(q, t) == q[1] * t[2] >= t[1] * q[2]

\* --------------------------------------------------------------------- nms

\* The boxes drawn for the suppression functions: three boxes in a chain
\* (IoU 1/2 between neighbours, 1/5 between the ends), one that overlaps the
\* first only in part of its height (IoU 1/3), and one far away.
BoxPool == {<<0, 0, 2, 1>>, <<1, 0, 3, 1>>, <<2, 0, 4, 1>>, <<0, 1, 2, 2>>,
            <<6, 2, 7, 4>>}

NmsScores == {50, 80, 90}

NmsDetPool == {<<s>> \o b : s \in NmsScores, b \in BoxPool}

\* Overlap thresholds: 0, 1/2 and 3/4.
NmsThresholds == {<<0, 1>>, <<1, 2>>, <<3, 4>>}

\* order = scores.argsort()[::-1] : a permutation of the indices with the
\* scores descending.  The position of equal scores is not fixed by the
\* sort, so every such permutation is an outcome.
DescOrders(dets) ==
    LET n == Len(dets)
    IN {p \in [1..n -> 1..n] :
          /\ \A k, l \in 1..n : k # l => p[k] # p[l]
          /\ \A k, l \in 1..n : k < l => Score(dets[p[k]]) >= Score(dets[p[l]])}

\* The body of the inner loop for the sorted position si: every later,
\* not yet suppressed row whose overlap with row order[si] reaches thresh is
\* marked.
NmsInner(dets, order, thresh, si, suppressed) ==
    LET i == order[si]
    IN [j \in 1..Len(dets) |->
          IF /\ \E sj \in (si + 1)..Len(dets) : order[sj] = j
             /\ suppressed[j] = 0
             /\ FracGe(Ovr(dets[i], dets[j]), thresh)
          THEN 1
          ELSE suppressed[j]]

\* The outer loop with the skip of suppressed rows removed: a suppressed
\* row still suppresses the rows after it.
RECURSIVE NmsLoopNoSkip(_, _, _, _, _)
NmsLoopNoSkip(dets, order, thresh, si, suppressed) ==
    IF si > Len(dets)
    THEN suppressed
    ELSE NmsLoopNoSkip(dets, order, thresh, si + 1,
                       NmsInner(dets, order, thresh, si, suppressed))

\* for _i in range(ndets): the outer loop from the sorted position si on.
RECURSIVE NmsLoop(_, _, _, _, _)
NmsLoop(dets, order, thresh, si, suppressed) ==
    IF si > Len(dets)
    THEN suppressed
    ELSE IF suppressed[order[si]] = 1
         THEN NmsLoop(dets, order, thresh, si + 1, suppressed)
         ELSE NmsLoop(dets, order, thresh, si + 1,
                      NmsInner(dets, order, thresh, si, suppressed))

\* keep = np.where(suppressed == 0)[0] : ascending indices.
NmsKeep(dets, suppressed) ==
    SelectSeq(Indices(Len(dets)), LAMBDA i : suppressed[i] = 0)

\* The survivors listed in the order of the sort instead of the order of
\* the input.
NmsInScoreOrder(dets, order, thresh) ==
    LET suppressed == NmsLoop(dets, order, thresh, 1, [j \in 1..Len(dets) |-> 0])
    IN Gather(dets, SelectSeq(order, LAMBDA i : suppressed[i] = 0))

\* nms(dets, thresh), given the outcome of the sort.
Nms(dets, order, thresh) ==
    IF Len(dets) = 0
    THEN <<>>
    ELSE LET suppressed ==
                 NmsLoop(dets, order, thresh, 1, [j \in 1..Len(dets) |-> 0])
         IN Gather(dets, NmsKeep(dets, suppressed))

InitNms ==
    /\ nmsv \in {[pc |-> "call", dets |-> d, thresh |-> t, out |-> <<>>] :
                   d \in SeqsUpTo(NmsDetPool, MaxDets), t \in NmsThresholds}
    /\ softv = Idle /\ votev = Idle /\ selv = Idle
    /\ maskv = Idle /\ flipv = Idle

NmsCall ==
    /\ nmsv.pc = "call"
    /\ \E order \in DescOrders(nmsv.dets) :
          nmsv' = [nmsv EXCEPT !.pc = "done",
                               !.out = Nms(nmsv.dets, order, nmsv.thresh)]
    /\ UNCHANGED <<softv, votev, selv, maskv, flipv>>

NextNms == NmsCall

SpecNms == InitNms /\ [][NextNms]_vars

\* The claims about nms.

NmsSurvivors == {i \in 1..Len(nmsv.dets) :
                   \E k \in 1..Len(nmsv.out) : nmsv.out[k] = nmsv.dets[i]}

NmsDistinctScores ==
    \A i, j \in 1..Len(nmsv.dets) :
        i # j => Score(nmsv.dets[i]) # Score(nmsv.dets[j])

NmsSuppresses(i, j) ==
    /\ Score(nmsv.dets[i]) > Score(nmsv.dets[j])
    /\ FracGe(Ovr(nmsv.dets[i], nmsv.dets[j]), nmsv.thresh)

\* C2: for pairwise distinct scores the result of nms is exactly the greedy
\* suppression set: a row survives if and only if no surviving row with a
\* higher score has IoU >= thresh with it; so the highest score survives and
\* no two survivors have IoU >= thresh.
NmsGreedyExact ==
    (nmsv.pc = "done" /\ NmsDistinctScores) =>
        /\ Len(nmsv.out) = Cardinality(NmsSurvivors)
        /\ Range(nmsv.out) \subseteq Range(nmsv.dets)
        /\ \A i \in 1..Len(nmsv.dets) :
              i \in NmsSurvivors <=>
                  ~ \E k \in NmsSurvivors : NmsSuppresses(k, i)
        /\ \A i \in 1..Len(nmsv.dets) :
              (\A j \in 1..Len(nmsv.dets) :
                   Score(nmsv.dets[i]) >= Score(nmsv.dets[j]))
                  => i \in NmsSurvivors
        /\ \A i, j \in NmsSurvivors :
              i # j => ~ FracGe(Ovr(nmsv.dets[i], nmsv.dets[j]), nmsv.thresh)

\* A chain of three rows: the first suppresses the second, the second
\* overlaps the third but is gone, the third survives.
NmsChainWitness ==
    /\ nmsv.pc = "done" /\ NmsDistinctScores
    /\ \E i, j, k \in 1..Len(nmsv.dets) :
          /\ NmsSuppresses(i, j) /\ NmsSuppresses(j, k)
          /\ ~ NmsSuppresses(i, k)
          /\ j \notin NmsSurvivors
          /\ {i, k} \subseteq NmsSurvivors

\* C3 as stated: the rows returned by nms are in descending score order.
NmsOutputDescending ==
    nmsv.pc = "done" =>
        \A k, l \in 1..Len(nmsv.out) :
            k < l => Score(nmsv.out[k]) >= Score(nmsv.out[l])

\* C3 as amended: the rows returned by nms are rows of the input in the
\* order they have in the input (ascending index), whatever their scores.
NmsOutputInputOrder ==
    nmsv.pc = "done" =>
        \E S \in SUBSET (1..Len(nmsv.dets)) :
            nmsv.out = Gather(nmsv.dets,
                              SelectSeq(Indices(Len(nmsv.dets)),
                                        LAMBDA i : i \in S))

\* Two survivors, the lower score first.
NmsAscendingWitness ==
    /\ nmsv.pc = "done"
    /\ Len(nmsv.out) = 2
    /\ Len(nmsv.dets) = 3
    /\ Score(nmsv.out[1]) < Score(nmsv.out[2])

\* ---------------------------------------------------------------- soft_nms

\* Picks a diverging loop of soft_nms may make beyond the number of its
\* input rows before the model stops following it.
MaxExtraPicks == 2

\* scores[maxpos] = -1, in score units.
ForceRemoved == -100

\* np.exp(-x) in units of 1/100 for x = 0, 1/10, 2/10, ..., 2.
ExpTable == <<100, 90, 82, 74, 67, 61, 55, 50, 45, 41, 37,
              33, 30, 27, 25, 22, 20, 18, 17, 15, 14>>

\* weight = np.exp(-(ovr * ovr) / sigma) in units of 1/100, for the overlap
\* ovr and sigma as fractions.  The exponent is rounded up to the next tenth,
\* so the weight is 100 exactly when the overlap is 0.
Weight(ovr, sigma) ==
    LET num == 10 * ovr[1] * ovr[1] * sigma[2]
        den == ovr[2] * ovr[2] * sigma[1]
        k == (num + den - 1) \div den
    IN ExpTable[Min(k, Len(ExpTable) - 1) + 1]

\* The last index of the maximum score.
ArgMaxLast(dets) ==
    CHOOSE i \in 1..Len(dets) :
        /\ \A j \in 1..Len(dets) : Score(dets[i]) >= Score(dets[j])
        /\ \A j \in 1..Len(dets) : j > i => Score(dets[j]) < Score(dets[i])

\* maxpos = np.argmax(dets[:, 0]) : the first index of the maximum score.
ArgMax(dets) ==
    CHOOSE i \in 1..Len(dets) :
        /\ \A j \in 1..Len(dets) : Score(dets[i]) >= Score(dets[j])
        /\ \A j \in 1..Len(dets) : j < i => Score(dets[j]) < Score(dets[i])

\* scores = scores * weight after scores[maxpos] = -1 : the decayed score of
\* every row, rounded down to the score unit.
Decayed(dets, maxpos, sigma) ==
    [i \in 1..Len(dets) |->
        ((IF i = maxpos THEN ForceRemoved ELSE Score(dets[i]))
            * Weight(Ovr(dets[i], dets[maxpos]), sigma)) \div 100]

\* The rows kept when thres is not applied: every score that is not negative.
KeepIdxNoThres(dets, scores, thres) ==
    SelectSeq(Indices(Len(dets)), LAMBDA i : scores[i] >= 0)

\* idx_keep = np.where(scores >= thres)
KeepIdx(dets, scores, thres) ==
    SelectSeq(Indices(Len(dets)), LAMBDA i : scores[i] >= thres)

\* One pass of the while loop over a non-empty dets: the row appended to
\* dets_final, the array dets as the pass leaves it (dets[:, 0] = scores is
\* written in place), and dets[idx_keep], a new array.
SoftIter(dets, sigma, thres) ==
    LET maxpos == ArgMax(dets)
        scores == Decayed(dets, maxpos, sigma)
        written == [i \in 1..Len(dets) |->
                       <<scores[i]>> \o SubSeq(dets[i], 2, 5)]
    IN [pick |-> dets[maxpos],
        written |-> written,
        kept |-> Gather(written, KeepIdx(dets, scores, thres))]

SoftBoxes == {<<0, 0, 2, 1>>, <<1, 0, 3, 1>>, <<0, 1, 2, 2>>, <<6, 2, 7, 4>>}

SoftScores == {-12, 40, 90}

SoftDetPool == {<<s>> \o b : s \in SoftScores, b \in SoftBoxes}

\* sigma: 1/2 and 1.
Sigmas == {<<1, 2>>, <<1, 1>>}

\* thres, in score units.
Thetas == {-20, 0, 30, 60}

\* A call soft_nms(arg, sigma, thres): dets is the local name, which is the
\* caller's array arg itself until dets = dets[idx_keep] rebinds it.
SoftCall(d, sigma, thres, run, out1) ==
    [pc |-> "loop", input |-> d, arg |-> d, dets |-> d, aliased |-> TRUE,
     dets_final |-> <<>>, sigma |-> sigma, thres |-> thres,
     run |-> run, out1 |-> out1]

InitSoft ==
    /\ softv \in {SoftCall(d, sg, th, 1, <<>>) :
                    d \in SeqsUpTo(SoftDetPool, MaxDets),
                    sg \in Sigmas, th \in Thetas}
    /\ nmsv = Idle /\ votev = Idle /\ selv = Idle
    /\ maskv = Idle /\ flipv = Idle

\* One pass of the loop of soft_nms.
SoftIterate ==
    /\ softv.pc = "loop"
    /\ Len(softv.dets) > 0
    /\ Len(softv.dets_final) < Len(softv.input) + MaxExtraPicks
    /\ LET it == SoftIter(softv.dets, softv.sigma, softv.thres)
       IN softv' = [softv EXCEPT
                       !.dets_final = Append(@, it.pick),
                       !.arg = IF softv.aliased THEN it.written ELSE @,
                       !.dets = it.kept,
                       !.aliased = FALSE]
    /\ UNCHANGED <<nmsv, votev, selv, maskv, flipv>>

\* The loop ends on an empty dets and dets_final is returned.
SoftReturn ==
    /\ softv.pc = "loop"
    /\ Len(softv.dets) = 0
    /\ softv' = [softv EXCEPT !.pc = "done"]
    /\ UNCHANGED <<nmsv, votev, selv, maskv, flipv>>

\* soft_nms is called again on what it returned, with the same parameters.
SoftRerun ==
    /\ softv.pc = "done"
    /\ softv.run = 1
    /\ softv' = SoftCall(softv.dets_final, softv.sigma, softv.thres,
                         2, softv.dets_final)
    /\ UNCHANGED <<nmsv, votev, selv, maskv, flipv>>

NextSoft == SoftIterate \/ SoftReturn \/ SoftRerun

SpecSoft == InitSoft /\ [][NextSoft]_vars

\* The claims about soft_nms.

SoftOutScore(k) == Score(softv.dets_final[k])

\* C4 as stated: the scores returned by soft_nms are non-increasing in pick
\* order and every one of them, the first included, is >= thres.
SoftSortedAllAboveThres ==
    softv.pc = "done" =>
        \A k \in 1..Len(softv.dets_final) :
            /\ SoftOutScore(k) >= softv.thres
            /\ k > 1 => SoftOutScore(k - 1) >= SoftOutScore(k)

\* C4 as amended: every picked score but the first is >= thres, and for
\* thres >= 0 the picked scores are non-increasing; the first pick is the
\* input maximum, which is never compared with thres.
SoftSortedRestAboveThres ==
    \A k \in 2..Len(softv.dets_final) :
        /\ SoftOutScore(k) >= softv.thres
        /\ softv.thres >= 0 => SoftOutScore(k - 1) >= SoftOutScore(k)

\* A finished first run with a positive thres whose second pick was decayed.
SoftDecayedWitness ==
    /\ softv.pc = "done" /\ softv.run = 1
    /\ softv.thres > 0
    /\ Len(softv.dets_final) >= 2
    /\ softv.dets_final[2] \notin Range(softv.input)

\* C5 as stated: a second run on the result of the first returns it as is.
SoftIdempotent ==
    (softv.pc = "done" /\ softv.run = 2) => softv.dets_final = softv.out1

SoftOut1Disjoint ==
    \A i, j \in 1..Len(softv.out1) :
        i # j => Inter(softv.out1[i], softv.out1[j]) = 0

\* C5 as amended: a second run on the result of the first returns it as is
\* when no two rows of that result overlap.
SoftIdempotentDisjoint ==
    (softv.pc = "done" /\ softv.run = 2 /\ SoftOut1Disjoint)
        => softv.dets_final = softv.out1

\* A finished second run on two rows that do not overlap.
SoftDisjointWitness ==
    /\ softv.pc = "done" /\ softv.run = 2
    /\ Len(softv.out1) = 2
    /\ SoftOut1Disjoint
    /\ softv.dets_final = softv.out1

\* C10: the loop of soft_nms makes at most as many picks as the input has
\* rows (every pass removes the picked row), so no row is returned twice.
SoftLoopAtMostN == Len(softv.dets_final) <= Len(softv.input)

\* -------------------------------------------------------------- box_voting

\* bbox_area(box) of a box <<x1, y1, x2, y2>>.
BboxArea(box) == (box[3] - box[1] + 1) * (box[4] - box[2] + 1)

\* overlaps[n, k] of bbox_overlaps for the boxes x[n] = xb and y[k] = yb, as
\* a fraction: 0 unless iw > 0 and ih > 0.
BboxOverlap(xb, yb) ==
    LET iw == Min(xb[3], yb[3]) - Max(xb[1], yb[1]) + 1
        ih == Min(xb[4], yb[4]) - Max(xb[2], yb[2]) + 1
        ua == BboxArea(xb) + BboxArea(yb) - iw * ih
    IN IF iw > 0 /\ ih > 0 THEN <<iw * ih, ua>> ELSE <<0, 1>>

\* The box of a row: dets[:, 1:].
BoxOf(d) == SubSeq(d, 2, 5)

RECURSIVE SumOver(_, _, _)
\* The sum of f[i] over the indices idx[k..].
SumOver(f, idx, k) ==
    IF k > Len(idx) THEN 0 ELSE f[idx[k]] + SumOver(f, idx, k + 1)

\* inds_to_vote for the surviving row top.
IndsToVote(top, dets, vote_thresh) ==
    SelectSeq(Indices(Len(dets)),
              LAMBDA n : FracGe(BboxOverlap(BoxOf(top), BoxOf(dets[n])),
                                vote_thresh))

\* np.average(boxes_to_vote, axis=0, weights=ws) raises ZeroDivisionError
\* when the weights sum to zero, as they do when there are none.
VoteRaises(top, dets, vote_thresh) ==
    SumOver([n \in 1..Len(dets) |-> Score(dets[n])],
            IndsToVote(top, dets, vote_thresh), 1) = 0

\* top_dets[k] after top_dets[k, 1:] = np.average(...): the score of the
\* row is kept, each coordinate becomes the weighted mean, rounded down to
\* the coordinate grid.
VotedRow(top, dets, vote_thresh) ==
    LET inds == IndsToVote(top, dets, vote_thresh)
        scl == SumOver([n \in 1..Len(dets) |-> Score(dets[n])], inds, 1)
        avg(c) == SumOver([n \in 1..Len(dets) |-> Score(dets[n]) * dets[n][c]],
                          inds, 1) \div scl
    IN <<Score(top), avg(2), avg(3), avg(4), avg(5)>>

\* box_voting(nms_dets, dets, vote_thresh): the exception, or top_dets.
BoxVoting(nms_dets, dets, vote_thresh) ==
    IF \E k \in 1..Len(nms_dets) : VoteRaises(nms_dets[k], dets, vote_thresh)
    THEN [raised |-> "ZeroDivisionError", top_dets |-> <<>>]
    ELSE [raised |-> "",
          top_dets |-> [k \in 1..Len(nms_dets) |->
                           VotedRow(nms_dets[k], dets, vote_thresh)]]

VoteDetPool == {<<s>> \o b : s \in {40, 90},
                b \in {<<0, 0, 2, 1>>, <<1, 0, 3, 1>>, <<6, 2, 7, 4>>}}

\* vote_thresh: 1/2, 1 and 3/2.
VoteThresholds == {<<1, 2>>, <<1, 1>>, <<3, 2>>}

\* A call box_voting(nms_dets, dets, vote_thresh) with nms_dets any rows of
\* dets in their order.
InitVote ==
    /\ votev \in {[pc |-> "call", dets |-> d, vote_thresh |-> vt,
                   nms_dets |-> Gather(d, SelectSeq(Indices(Len(d)),
                                                    LAMBDA i : i \in S)),
                   top_dets |-> <<>>] :
                    d \in SeqsUpTo(VoteDetPool, MaxDets),
                    vt \in VoteThresholds, S \in SUBSET (1..MaxDets)}
    /\ nmsv = Idle /\ softv = Idle /\ selv = Idle
    /\ maskv = Idle /\ flipv = Idle

VoteCall ==
    /\ votev.pc = "call"
    /\ LET r == BoxVoting(votev.nms_dets, votev.dets, votev.vote_thresh)
       IN votev' = [votev EXCEPT
                       !.pc = IF r.raised = "" THEN "done" ELSE r.raised,
                       !.top_dets = r.top_dets]
    /\ UNCHANGED <<nmsv, softv, selv, maskv, flipv>>

NextVote == VoteCall

SpecVote == InitVote /\ [][NextVote]_vars

\* C6: box_voting with a vote threshold above 1 completes without error and
\* returns every surviving row with its coordinates and score as they were.
VoteAboveOneIdentity ==
    (votev.pc \notin {"idle", "call"}
        /\ votev.vote_thresh[1] > votev.vote_thresh[2])
        => /\ votev.pc = "done"
           /\ votev.top_dets = votev.nms_dets

\* ---------------------------------------------------------- get_nms_result

\* Largest detections_per_im drawn.
MaxPerIm == 2

RECURSIVE SoftLoop(_, _, _, _)
\* The while loop of soft_nms from the working array dets on, for a thres
\* that is not negative (every pass then drops the picked row).
SoftLoop(dets, sigma, thres, dets_final) ==
    IF Len(dets) = 0
    THEN dets_final
    ELSE LET it == SoftIter(dets, sigma, thres)
         IN SoftLoop(it.kept, sigma, thres, Append(dets_final, it.pick))

\* soft_nms(dets, sigma, thres): what it returns and what it leaves in the
\* caller's array dets, which its first pass writes in place.
SoftNms(dets, sigma, thres) ==
    [out |-> SoftLoop(dets, sigma, thres, <<>>),
     arg |-> IF Len(dets) = 0 THEN dets
             ELSE SoftIter(dets, sigma, thres).written]

\* A threshold given as a fraction, in score units.
InScoreUnits(t) == (100 * t[1]) \div t[2]

RECURSIVE Concat(_, _, _)
\* np.hstack / np.vstack of f[j] for j in range(lo, hi).
Concat(f, lo, hi) ==
    IF lo >= hi THEN <<>> ELSE f[lo] \o Concat(f, lo + 1, hi)

RECURSIVE SortAsc(_)
\* np.sort(image_scores)
SortAsc(seq) ==
    IF Len(seq) = 0
    THEN <<>>
    ELSE LET m == CHOOSE i \in 1..Len(seq) :
                      \A k \in 1..Len(seq) : seq[i] <= seq[k]
             rest == [k \in 1..(Len(seq) - 1) |->
                         IF k < m THEN seq[k] ELSE seq[k + 1]]
         IN <<seq[m]>> \o SortAsc(rest)

\* inds for class j: np.where(labels == j)[0], or
\* np.where(scores[:, j] > score_thresh)[0] without labels.
ClassInds(in, config, j) ==
    SelectSeq(Indices(Len(in.scores)),
              LAMBDA i : IF in.has_labels
                         THEN in.labels[i] = j
                         ELSE in.scores[i][j] > config.score_thresh)

\* dets_j = np.hstack((scores_j[:, np.newaxis], boxes_j))
ClassDets(in, config, j) ==
    LET inds == ClassInds(in, config, j)
    IN [k \in 1..Len(inds) |->
           IF in.has_labels
           THEN <<in.scores[inds[k]]>> \o in.boxes[inds[k]]
           ELSE <<in.scores[inds[k]][j]>> \o in.boxes[inds[k]][j]]

\* The suppression step on dets_j: the survivors and the array dets_j as
\* the step leaves it.  nms only reads dets_j.
Suppress(dets_j, order, config) ==
    IF config.use_soft_nms
    THEN SoftNms(dets_j, config.sigma, InScoreUnits(config.nms_thresh))
    ELSE [out |-> Nms(dets_j, order, config.nms_thresh), arg |-> dets_j]

\* np.hstack((label[:, np.newaxis], nms_dets)) : the rows with the label
\* j in front.
AddLabels(j, nms_dets) == [k \in 1..Len(nms_dets) |-> <<j>> \o nms_dets[k]]

\* The rows of a class with a score above the cutoff only.
CapKeepAbove(rows, image_thresh) ==
    SelectSeq(rows, LAMBDA r : r[2] > image_thresh)

\* cls_boxes[j][keep, :] with keep = np.where(cls_boxes[j][:, 1] >= image_thresh)
CapKeep(rows, image_thresh) ==
    SelectSeq(rows, LAMBDA r : r[2] >= image_thresh)

\* image_thresh = np.sort(image_scores)[-detections_per_im], for
\* 1 <= detections_per_im < len(image_scores).
ImageThresh(image_scores, detections_per_im) ==
    SortAsc(image_scores)[Len(image_scores) - detections_per_im + 1]

\* The lines 199 to 210: cls_boxes after the limit to detections_per_im.
Capped(cls_boxes, start_idx, num_classes, detections_per_im) ==
    LET image_scores ==
            Concat([j \in start_idx..(num_classes - 1) |->
                       [k \in 1..Len(cls_boxes[j]) |-> cls_boxes[j][k][2]]],
                   start_idx, num_classes)
    IN IF Len(image_scores) > detections_per_im
       THEN [j \in DOMAIN cls_boxes |->
                IF j >= start_idx
                THEN CapKeep(cls_boxes[j],
                             ImageThresh(image_scores, detections_per_im))
                ELSE cls_boxes[j]]
       ELSE cls_boxes

\* Two boxes of IoU 1/5: under nms_thresh = 1/2 a row is suppressed by a
\* row of the same box only, and soft_nms decays the rows of the other box.
SelBoxes == {<<0, 0, 2, 1>>, <<2, 0, 4, 1>>}

SelScores == {60, 80}

\* Candidates with a label each (the call of corner_post_process): two
\* classes, no background class.
LabelledInputs ==
    {[has_labels |-> TRUE, num_classes |-> 2, background_label |-> -1,
      scores |-> [i \in 1..Len(c) |-> c[i][1]],
      boxes |-> [i \in 1..Len(c) |-> c[i][2]],
      labels |-> [i \in 1..Len(c) |-> c[i][3]]] :
        c \in SeqsUpTo(SelScores \X SelBoxes \X {0, 1}, MaxDets)}

\* Candidates with a score and a box for each of three classes (the call
\* of mstest_box_post_process), class 0 the background; at most two
\* candidates.
DenseInputs ==
    {[has_labels |-> FALSE, num_classes |-> 3, background_label |-> 0,
      scores |-> [i \in 1..Len(c) |-> <<c[i][1], c[i][2]>>],
      boxes |-> [i \in 1..Len(c) |-> c[i][3]],
      labels |-> <<>>] :
        c \in SeqsUpTo({5, 60, 80} \X {5, 60, 80}
                         \X {[j \in 1..2 |-> <<0, 0, 2, 1>>],
                             [j \in 1..2 |-> <<2 * j - 2, 0, 2 * j, 1>>]},
                       2)}

Configs ==
    [score_thresh : {5}, nms_thresh : {<<1, 2>>}, use_soft_nms : BOOLEAN,
     sigma : {<<1, 2>>}, enable_voting : BOOLEAN, vote_thresh : {<<1, 2>>},
     detections_per_im : 1..MaxPerIm]

\* start_idx = 1 if background_label == 0 else 0
StartIdx(in) == IF in.background_label = 0 THEN 1 ELSE 0

\* A call get_nms_result(boxes, scores, config, num_classes,
\* background_label, labels) at the head of its loop over the classes.
\* dets_j and vote_pool hold, for the class last handled, dets_j as it was
\* built and dets_j as it was when the voting step was reached.
SelStart(in, cf) ==
    [pc |-> "classes", in |-> in, config |-> cf, j |-> StartIdx(in),
     cls_boxes |-> [c \in 0..(in.num_classes - 1) |-> <<>>],
     dets_j |-> <<>>, vote_pool |-> <<>>,
     pooled |-> <<>>, im_results |-> <<>>]

InitSel ==
    /\ \/ \E in \in LabelledInputs, cf \in Configs : selv = SelStart(in, cf)
       \/ \E in \in DenseInputs, cf \in Configs : selv = SelStart(in, cf)
    /\ nmsv = Idle /\ softv = Idle /\ votev = Idle
    /\ maskv = Idle /\ flipv = Idle

\* One pass of the loop over the classes (lines 180 to 198); an exception
\* of box_voting ends the call.
SelClass ==
    /\ selv.pc = "classes"
    /\ selv.j < selv.in.num_classes
    /\ LET dets_j == ClassDets(selv.in, selv.config, selv.j)
       IN \E order \in DescOrders(dets_j) :
            LET sup == Suppress(dets_j, order, selv.config)
                vote == IF selv.config.enable_voting
                        THEN BoxVoting(sup.out, sup.arg,
                                       selv.config.vote_thresh)
                        ELSE [raised |-> "", top_dets |-> sup.out]
            IN selv' = [selv EXCEPT
                           !.pc = IF vote.raised # "" THEN vote.raised
                                  ELSE IF selv.j + 1 < selv.in.num_classes
                                       THEN "classes" ELSE "cap",
                           !.j = @ + 1,
                           !.cls_boxes[selv.j] = AddLabels(selv.j, vote.top_dets),
                           !.dets_j = dets_j,
                           !.vote_pool = sup.arg]
    /\ UNCHANGED <<nmsv, softv, votev, maskv, flipv>>

\* The limit to detections_per_im over all classes and the result (lines
\* 199 to 210).  pooled keeps the rows of all classes before the limit.
SelCap ==
    /\ selv.pc = "cap"
    /\ LET capped == Capped(selv.cls_boxes, StartIdx(selv.in),
                            selv.in.num_classes,
                            selv.config.detections_per_im)
       IN selv' = [selv EXCEPT
                      !.pc = "done",
                      !.pooled = Concat(selv.cls_boxes, StartIdx(selv.in),
                                        selv.in.num_classes),
                      !.cls_boxes = capped,
                      !.im_results = Concat(capped, StartIdx(selv.in),
                                            selv.in.num_classes)]
    /\ UNCHANGED <<nmsv, softv, votev, maskv, flipv>>

NextSel == SelClass \/ SelCap

SpecSel == InitSel /\ [][NextSel]_vars

\* The claims about get_nms_result.

\* The scores v of the pooled rows with fewer than K pooled scores above v
\* and at least K pooled scores at or above v: the K-th highest score.
SelCutoffs ==
    {v \in {selv.pooled[i][2] : i \in 1..Len(selv.pooled)} :
        /\ Cardinality({i \in 1..Len(selv.pooled) : selv.pooled[i][2] > v})
              < selv.config.detections_per_im
        /\ Cardinality({i \in 1..Len(selv.pooled) : selv.pooled[i][2] >= v})
              >= selv.config.detections_per_im}

SelCutoffShared ==
    \E v \in SelCutoffs :
        Cardinality({i \in 1..Len(selv.pooled) : selv.pooled[i][2] = v}) > 1

\* C1: when the rows pooled over the classes are more than
\* detections_per_im = K >= 1, get_nms_result returns at least K rows, and
\* exactly K unless two pooled rows share the K-th highest score.
SelCapCount ==
    (selv.pc = "done"
        /\ Len(selv.pooled) > selv.config.detections_per_im)
        => /\ Len(selv.im_results) >= selv.config.detections_per_im
           /\ ~ SelCutoffShared
                 => Len(selv.im_results) = selv.config.detections_per_im

\* Three rows pooled from two classes, cut down to two.
SelCapWitness ==
    /\ selv.pc = "done"
    /\ Len(selv.pooled) = 3
    /\ selv.config.detections_per_im = 2
    /\ ~ SelCutoffShared
    /\ Len(selv.im_results) = 2
    /\ \E k, l \in 1..Len(selv.pooled) : selv.pooled[k][1] # selv.pooled[l][1]

\* C9: with enable_voting the pool handed to box_voting for a class is
\* dets_j as it was built, whichever suppression ran before.
SelVotePoolOriginal ==
    (selv.pc # "idle" /\ selv.config.enable_voting)
        => selv.vote_pool = selv.dets_j

\* -------------------------------------------------------------- mask_encode

\* Largest image height and width drawn.
MaxIm == 2

\* A Python slice a:b of an axis of length n: the first index, and the
\* number of indices, after negative bounds are counted from the end and
\* all bounds are cut to the axis.
PySlice(a, b, n) ==
    LET norm(v) == IF v < 0 THEN Max(v + n, 0) ELSE Min(v, n)
    IN [start |-> norm(a), len |-> Max(norm(b) - norm(a), 0)]

\* Cut from below only.
ClipLow(v, hi) == Max(v, 0)

\* min(max(v, 0), hi) : the bounds x0, x1, y0, y1 of the lines 312 to 315.
Clip(v, hi) == Min(Max(v, 0), hi)

\* The outcomes drawn for resized_mask, the binarized output of cv2.resize:
\* its value at row r and column c (from 0).
ResizedKinds == {"ones", "checks"}

Resized(kind, r, c) == IF kind = "ones" \/ (r + c) % 2 = 0 THEN 1 ELSE 0

\* The lines 303 to 318 for one detection with the expanded box
\* <<xmin, ymin, xmax, ymax>>: the two regions of the assignment, whether it
\* raises (numpy assigns a region to one of the same shape, or stretches an
\* axis of length 1), and the pixels of im_mask that end up set.
Paste(box, im_h, im_w, kind) ==
    LET xmin == box[1]
        ymin == box[2]
        xmax == box[3]
        ymax == box[4]
        w == Max(xmax - xmin + 1, 1)
        h == Max(ymax - ymin + 1, 1)
        x0 == Clip(xmin, im_w)
        x1 == Clip(xmax + 1, im_w)
        y0 == Clip(ymin, im_h)
        y1 == Clip(ymax + 1, im_h)
        dr == PySlice(y0, y1, im_h)
        dc == PySlice(x0, x1, im_w)
        sr == PySlice(y0 - ymin, y1 - ymin, h)
        sc == PySlice(x0 - xmin, x1 - xmin, w)
        fits == /\ sr.len = dr.len \/ sr.len = 1
                /\ sc.len = dc.len \/ sc.len = 1
    IN [w |-> w, h |-> h, kind |-> kind,
        src_bounds |-> <<y0 - ymin, y1 - ymin, x0 - xmin, x1 - xmin>>,
        dst_shape |-> <<dr.len, dc.len>>,
        src_shape |-> <<sr.len, sc.len>>,
        raised |-> IF fits THEN "" ELSE "ValueError",
        im_mask |->
            IF ~ fits
            THEN {}
            ELSE {p \in (0..(im_h - 1)) \X (0..(im_w - 1)) :
                    /\ p[1] >= dr.start /\ p[1] < dr.start + dr.len
                    /\ p[2] >= dc.start /\ p[2] < dc.start + dc.len
                    /\ Resized(kind,
                               sr.start + (IF sr.len = 1 /\ dr.len # 1 THEN 0
                                           ELSE p[1] - dr.start),
                               sc.start + (IF sc.len = 1 /\ dc.len # 1 THEN 0
                                           ELSE p[2] - dc.start)) = 1}]

\* The coordinates an expanded box may have: from two pixels outside the
\* largest image on either side.
MaskCoords == (-2)..(MaxIm + 2)

\* A call mask_encode(results, resolution) on one image: results['bbox'] is
\* the marker array of shape (1, 1), or no row, or one row whose box,
\* expanded and cut to integers, is box.
InitMask ==
    /\ maskv \in {[pc |-> "start", bboxes |-> b, num |-> n,
                   im_h |-> ih, im_w |-> iw, box |-> bx,
                   j |-> 0, segms |-> <<>>, paste |-> <<>>] :
                    b \in {"marker", "rows"}, n \in {0, 1},
                    ih \in 1..MaxIm, iw \in 1..MaxIm,
                    bx \in MaskCoords \X MaskCoords \X MaskCoords \X MaskCoords}
    /\ nmsv = Idle /\ softv = Idle /\ votev = Idle
    /\ selv = Idle /\ flipv = Idle

\* The lines 274 to 277: segms is returned empty for the marker and for an
\* array without rows.
MaskEmpty ==
    /\ maskv.pc = "start"
    /\ maskv.bboxes = "marker" \/ maskv.num = 0
    /\ maskv' = [maskv EXCEPT !.pc = "done"]
    /\ UNCHANGED <<nmsv, softv, votev, selv, flipv>>

\* One pass of the loop over the detections of the image (lines 297 to
\* 322), and the return after the last.
MaskDetection ==
    /\ maskv.pc = "start"
    /\ maskv.bboxes = "rows" /\ maskv.j < maskv.num
    /\ \E kind \in ResizedKinds :
          LET ps == Paste(maskv.box, maskv.im_h, maskv.im_w, kind)
          IN maskv' = [maskv EXCEPT
                          !.pc = IF ps.raised # "" THEN ps.raised ELSE "done",
                          !.j = @ + 1,
                          !.paste = ps,
                          !.segms = IF ps.raised # "" THEN @
                                    ELSE Append(@, ps.im_mask)]
    /\ UNCHANGED <<nmsv, softv, votev, selv, flipv>>

NextMask == MaskEmpty \/ MaskDetection

SpecMask == InitMask /\ [][NextMask]_vars

\* The claims about mask_encode.

MaskBoxOutside ==
    \/ maskv.box[3] < 0 \/ maskv.box[1] >= maskv.im_w
    \/ maskv.box[4] < 0 \/ maskv.box[2] >= maskv.im_h

\* C7: mask_encode returns no mask for the marker array and for an array
\* without rows; for a detection the two regions of the assignment have the
\* same shape, a region that is not empty has its bounds inside the resized
\* mask, only pixels inside both the expanded box and the image are set, and
\* a box wholly outside the image gives an all-false mask.
MaskClipSafe ==
    /\ maskv.pc \in {"idle", "start", "done"}
    /\ (maskv.pc = "done" /\ (maskv.bboxes = "marker" \/ maskv.num = 0))
          => maskv.segms = <<>>
    /\ (maskv.pc = "done" /\ maskv.j = 1) =>
          /\ maskv.paste.src_shape = maskv.paste.dst_shape
          /\ Len(maskv.segms) = 1
          /\ (maskv.paste.src_shape[1] > 0 /\ maskv.paste.src_shape[2] > 0)
                => /\ 0 <= maskv.paste.src_bounds[1]
                   /\ maskv.paste.src_bounds[2] <= maskv.paste.h
                   /\ 0 <= maskv.paste.src_bounds[3]
                   /\ maskv.paste.src_bounds[4] <= maskv.paste.w
          /\ \A p \in maskv.segms[1] :
                /\ maskv.box[2] <= p[1] /\ p[1] <= maskv.box[4]
                /\ maskv.box[1] <= p[2] /\ p[2] <= maskv.box[3]
                /\ 0 <= p[1] /\ p[1] < maskv.im_h
                /\ 0 <= p[2] /\ p[2] < maskv.im_w
          /\ MaskBoxOutside => maskv.segms[1] = {}

\* A box beyond the right edge of the image whose resized mask is all ones:
\* the mask returned for it is all false.
MaskOutsideWitness ==
    /\ maskv.pc = "done" /\ maskv.j = 1
    /\ maskv.box[1] > maskv.im_w
    /\ maskv.box[3] > maskv.box[1] /\ maskv.box[4] > maskv.box[2]
    /\ maskv.box[2] = 0
    /\ maskv.paste.kind = "ones"
    /\ maskv.segms = <<{}>>

\* ----------------------------------------------------------------- box_flip

\* Bits of the significand of the floating-point format of the arrays (24
\* for float32; a short one here, so that rounding shows on small numbers).
MantBits == 3

RECURSIVE Pow2(_)
Pow2(n) == IF n = 0 THEN 1 ELSE 2 * Pow2(n - 1)

RECURSIVE Quantum(_)
\* The spacing of the floating-point numbers around a >= 0.
Quantum(a) == IF a < Pow2(MantBits) THEN 1 ELSE 2 * Quantum(a \div 2)

\* The floating-point number nearest to v (ties to the even significand).
\* Coordinates are counted in quarters of a pixel, so a number is an integer
\* count of quarters with at most MantBits significant bits.
RoundF(v) ==
    LET a == IF v < 0 THEN -v ELSE v
        q == Quantum(a)
        lo == (a \div q) * q
        hi == lo + q
        r == IF a - lo < hi - a THEN lo
             ELSE IF a - lo > hi - a THEN hi
             ELSE IF (lo \div q) % 2 = 0 THEN lo ELSE hi
    IN IF v < 0 THEN -r ELSE r

\* im_width - x - 1 : two floating-point subtractions (1 is four quarters).
Mirror(im_width, x) == RoundF(RoundF(im_width - x) - 4)

\* The second assignment reading the array it writes: column 2 is computed
\* from the column 0 that the first assignment has just replaced.
BoxFlipInPlace(boxes, im_width) ==
    [r \in 1..Len(boxes) |->
        [k \in 1..Len(boxes[r]) |->
            IF (k - 1) % 4 = 0 THEN Mirror(im_width, boxes[r][k + 2])
            ELSE IF (k - 1) % 4 = 2
                 THEN Mirror(im_width, Mirror(im_width, boxes[r][k]))
                 ELSE boxes[r][k]]]

\* box_flip(boxes, im_shape) with im_width = im_shape[0][1]: in a copy of
\* boxes, every fourth column from column 0 and from column 2 is mirrored
\* from the other one of boxes.
BoxFlip(boxes, im_width) ==
    [r \in 1..Len(boxes) |->
        [k \in 1..Len(boxes[r]) |->
            IF (k - 1) % 4 = 0 THEN Mirror(im_width, boxes[r][k + 2])
            ELSE IF (k - 1) % 4 = 2 THEN Mirror(im_width, boxes[r][k - 2])
                 ELSE boxes[r][k]]]

\* The x coordinates drawn: the floating-point numbers from 0 to 3 pixels.
FlipXs == {v \in 0..12 : RoundF(v) = v}

\* The boxes drawn, x1 <= x2, with one pair of y coordinates.
FlipBoxes == {<<p[1], 2, p[2], 5>> : p \in {q \in FlipXs \X FlipXs : q[1] <= q[2]}}

\* Image widths of 4 and 8 pixels.
FlipWidths == {16, 32}

\* A call box_flip(boxes, im_shape) on one row of four or eight columns, and
\* a second call on what the first returned.
InitFlip ==
    /\ flipv \in {[pc |-> "flip", boxes |-> <<row>>, im_width |-> w,
                   flipped |-> <<row>>, once |-> <<row>>, n |-> 0] :
                    row \in FlipBoxes \cup {a \o b : a \in FlipBoxes, b \in FlipBoxes},
                    w \in FlipWidths}
    /\ nmsv = Idle /\ softv = Idle /\ votev = Idle
    /\ selv = Idle /\ maskv = Idle

Flip ==
    /\ flipv.pc = "flip"
    /\ flipv.n < 2
    /\ flipv' = [flipv EXCEPT
                    !.flipped = BoxFlip(flipv.flipped, flipv.im_width),
                    !.once = IF flipv.n = 0
                             THEN BoxFlip(flipv.flipped, flipv.im_width)
                             ELSE @,
                    !.n = @ + 1]
    /\ UNCHANGED <<nmsv, softv, votev, selv, maskv>>

NextFlip == Flip

SpecFlip == InitFlip /\ [][NextFlip]_vars

\* The claims about box_flip.

FlipCols == 1..Len(flipv.boxes[1])

\* x2 - x1 of every box is the same in the rows a and b.
FlipSameWidths(a, b) ==
    \A k \in FlipCols :
        (k - 1) % 4 = 0 => a[k + 2] - a[k] = b[k + 2] - b[k]

FlipSameYs(a, b) == \A k \in FlipCols : (k - 1) % 2 = 1 => a[k] = b[k]

FlipWholePixels ==
    /\ flipv.im_width % 4 = 0
    /\ flipv.im_width <= 4 * Pow2(MantBits)
    /\ \A k \in FlipCols :
          (k - 1) % 2 = 0 =>
              /\ flipv.boxes[1][k] % 4 = 0
              /\ 0 <= flipv.boxes[1][k]
              /\ flipv.boxes[1][k] <= flipv.im_width - 4

====
